---- MODULE Spec2Model ----
(***************************************************************************)
(* A model of typescript-decode (src/src/index.ts): runtime values, the    *)
(* lodash predicates the decoders call, DecodeError, the decoder           *)
(* combinators as a syntax tree, and the evaluation of a decoder on a      *)
(* value together with the log of the invocations it makes.                *)
(***************************************************************************)
EXTENDS Integers, Sequences, FiniteSets, TLC

(***************************************************************************)
(* Runtime values.  Every value is a record of one shape:                  *)
(*   t  : the kind of value                                                *)
(*   s  : a string's text; "true"/"false" of a boolean; "NaN" of the       *)
(*        not-a-number value                                               *)
(*   n  : a number's value; a date's time stamp                            *)
(*   kv : the entries <<[k, v], ...>> of a plain object in enumeration     *)
(*        order; the elements of an array, element i under key i-1         *)
(***************************************************************************)
V(t, s, n, kv) == [t |-> t, s |-> s, n |-> n, kv |-> kv]

Null == V("null", "", 0, <<>>)

Undefined == V("undefined", "", 0, <<>>)

StrV(s) == V("string", s, 0, <<>>)

NumV(n) == V("number", "", n, <<>>)

NaN == V("number", "NaN", 0, <<>>)

BoolV(b) == V("boolean", IF b THEN "true" ELSE "false", 0, <<>>)

DateV(n) == V("date", "", n, <<>>)

Entry(k, v) == [k |-> k, v |-> v]

ObjV(kv) == V("object", "", 0, kv)

ArrV(vs) == V("array", "", 0, [i \in 1..Len(vs) |-> Entry(ToString(i - 1), vs[i])])

Elems(a) == [i \in 1..Len(a.kv) |-> a.kv[i].v]

(* Object.keys(obj): the own keys in enumeration order. *)
Keys(obj) == [i \in 1..Len(obj.kv) |-> obj.kv[i].k]

KeySet(obj) == {obj.kv[i].k : i \in 1..Len(obj.kv)}

(* keys.join(', ') *)
RECURSIVE Join(_)
Join(ks) ==
  IF Len(ks) = 0 THEN ""
  ELSE IF Len(ks) = 1 THEN ks[1]
  ELSE ks[1] \o ", " \o Join(Tail(ks))

(***************************************************************************)
(* lodash predicates, as documented for lodash 4.                          *)
(***************************************************************************)
isNull(v) == v.t = "null"

isUndefined(v) == v.t = "undefined"

isNil(v) == v.t \in {"null", "undefined"}

isString(v) == v.t = "string"

(* _.isNumber(NaN) is true. *)
isNumber(v) == v.t = "number"

isBoolean(v) == v.t = "boolean"

isDate(v) == v.t = "date"

isArray(v) == v.t = "array"

(* _.isObject: the language type Object, which arrays and dates are. *)
isObject(v) == v.t \in {"object", "array", "date"}

isPlainObject(v) == v.t = "object"

(* hasOwnProperty.call(v, key): an object's keys, an array's indices and
   "length", a string's "length" (a string's indices are not modelled: no
   path of the model is one). *)
OwnKeys(v) ==
  CASE v.t = "object" -> KeySet(v)
    [] v.t = "array" -> KeySet(v) \cup {"length"}
    [] v.t = "string" -> {"length"}
    [] OTHER -> {}

(* v[key] for a non-nil v: the own property, undefined when there is none. *)
Get(v, key) ==
  IF key \notin OwnKeys(v) THEN Undefined
  ELSE IF key = "length" /\ v.t = "string" THEN NumV(Len(v.s))
  ELSE IF key = "length" /\ v.t = "array" THEN NumV(Len(v.kv))
  ELSE v.kv[CHOOSE i \in 1..Len(v.kv) : v.kv[i].k = key].v

(* The one property path of the model that holds a dot. *)
DeepPath == "a.b"

(* lodash's reIsDeepProp test, on the paths of the model. *)
isDeepProp(path) == path = DeepPath

(* lodash's stringToPath, on the paths of the model: "a.b" is a then b. *)
stringToPath(path) == IF path = DeepPath THEN <<"a", "b">> ELSE <<path>>

(* lodash's castPath: a path that is no deep property, or is a property
   of the value as it stands, is one key; otherwise it is split. *)
castPath(path, v) ==
  IF ~isDeepProp(path) \/ path \in OwnKeys(v) THEN <<path>>
  ELSE stringToPath(path)

(* lodash's hasPath with baseHas: every key of the path is an own property
   of the value reached so far. *)
RECURSIVE hasPath(_, _)
hasPath(v, keys) ==
  IF Len(keys) = 0 THEN TRUE
  ELSE /\ ~isNil(v)
       /\ keys[1] \in OwnKeys(v)
       /\ hasPath(Get(v, keys[1]), Tail(keys))

(* _.has(obj, path) *)
has(v, path) == ~isNil(v) /\ hasPath(v, castPath(path, v))

(* _.defaultTo(value, defaultValue): the default replaces NaN, null and
   undefined. *)
defaultTo(value, defaultValue) ==
  IF isNil(value) \/ value = NaN THEN defaultValue ELSE value

(* `${obj}` of a string or a number. *)
Text(v) ==
  IF v.t = "string" THEN v.s
  ELSE IF v.s = "NaN" THEN "NaN"
  ELSE ToString(v.n)

(* typeof obj, for what is neither null, undefined, a string, a number nor
   a plain object. *)
typeOf(v) == IF v.t = "boolean" THEN "boolean" ELSE "object"

actualValueDescription(obj) ==
  IF isNull(obj) THEN "null"
  ELSE IF isUndefined(obj) THEN "undefined"
  ELSE IF isString(obj) THEN "[" \o Text(obj) \o "]"
  ELSE IF isNumber(obj) THEN "[" \o Text(obj) \o "]"
  ELSE IF isPlainObject(obj)
    THEN "an object with the properties [" \o Join(Keys(obj)) \o "]"
  ELSE typeOf(obj)

(***************************************************************************)
(* Failures.  A thrown value is a record                                   *)
(*   de      : it is a DecodeError                                         *)
(*   plain   : plain_message (of a DecodeError)                            *)
(*   message : message                                                     *)
(*   inner   : <<>> for a null inner_error, <<e>> for inner_error e        *)
(***************************************************************************)
Banner == "Decode Failure: "

DecodeError(message, inner) ==
  [de |-> TRUE, plain |-> message, message |-> Banner \o message,
   inner |-> inner]

(* fail(message) *)
fail(message) == DecodeError(message, <<>>)

(* An Error that is no DecodeError, as a caller's function may throw. *)
OtherError(message) ==
  [de |-> FALSE, plain |-> "", message |-> message, inner |-> <<>>]

(* e.plain_message || '' *)
PlainOrEmpty(e) == IF e.de THEN e.plain ELSE ""

(* `${e.plain_message}`: a missing property prints as undefined. *)
PlainOrUndefined(e) == IF e.de THEN e.plain ELSE "undefined"

(* `${obj}` of any value: an array prints its elements joined by commas,
   null and undefined among them as nothing; a plain object prints as
   [object Object]; a date's text stands for what the platform prints. *)
RECURSIVE TemplateText(_)
RECURSIVE JoinElems(_)
JoinElems(vs) ==
  IF Len(vs) = 0 THEN ""
  ELSE (IF isNil(vs[1]) THEN "" ELSE TemplateText(vs[1]))
       \o (IF Len(vs) = 1 THEN "" ELSE "," \o JoinElems(Tail(vs)))

TemplateText(v) ==
  CASE v.t = "null" -> "null"
    [] v.t = "undefined" -> "undefined"
    [] v.t = "string" -> v.s
    [] v.t = "number" -> Text(v)
    [] v.t = "boolean" -> v.s
    [] v.t = "date" -> "Date(" \o ToString(v.n) \o ")"
    [] v.t = "array" -> JoinElems(Elems(v))
    [] OTHER -> "[object Object]"

(***************************************************************************)
(* Decoders.  A decoder is the function a combinator returns together with *)
(* its expectation; here it is a record naming the combinator that built   *)
(* it (k) and what its closure holds:                                      *)
(*   expectation : the expectation property ("null" for hardcoded's null,  *)
(*                 which is how a template prints it)                      *)
(*   path        : the path of required and optional                       *)
(*   sub         : the decoders it wraps (the field decoders of object, in *)
(*                 the order of Object.keys(props))                        *)
(*   names       : the field names of object; the options of enumeration   *)
(*   fn          : the caller's function of custom, enumeration (coerce)   *)
(*                 and dependent (the selector), by name                   *)
(*   val         : <<value>> of hardcoded, <<default_value>> of withDefault*)
(***************************************************************************)
Dec(k, expectation, path, sub, names, fn, val) ==
  [k |-> k, expectation |-> expectation, path |-> path, sub |-> sub,
   names |-> names, fn |-> fn, val |-> val]

hardcoded(value) == Dec("hardcoded", "null", "", <<>>, <<>>, "", <<value>>)

nullable(decoder) ==
  Dec("nullable", "be null or " \o decoder.expectation, "", <<decoder>>,
      <<>>, "", <<>>)

optional(path, decoder) ==
  Dec("optional", decoder.expectation \o " optionally at [" \o path \o "]",
      path, <<decoder>>, <<>>, "", <<>>)

required(path, decoder) ==
  Dec("required", decoder.expectation \o " at [" \o path \o "]", path,
      <<decoder>>, <<>>, "", <<>>)

withDefault(default_value, decoder) ==
  Dec("withDefault", decoder.expectation, "", <<decoder>>, <<>>, "",
      <<default_value>>)

str == Dec("str", "be a string", "", <<>>, <<>>, "", <<>>)

date == Dec("date", "be a date", "", <<>>, <<>>, "", <<>>)

bool == Dec("bool", "be a boolean", "", <<>>, <<>>, "", <<>>)

number == Dec("number", "be a number", "", <<>>, <<>>, "", <<>>)

anyObject == Dec("anyObject", "be an object", "", <<>>, <<>>, "", <<>>)

array(decoder) ==
  Dec("array",
      "be an array where each element should " \o decoder.expectation, "",
      <<decoder>>, <<>>, "", <<>>)

dictionary(decoder) ==
  Dec("dictionary",
      "be a dictionary object where each value should "
        \o decoder.expectation,
      "", <<decoder>>, <<>>, "", <<>>)

(* object(props), props given as its keys and, in the same order, its
   decoders. *)
object(names, decoders) ==
  Dec("object", "be an object with the properties [" \o Join(names) \o "]",
      "", decoders, names, "", <<>>)

enumeration(coerce, options) ==
  Dec("enumeration", "to be one of [" \o Join(options) \o "]", "", <<>>,
      options, coerce, <<>>)

custom(decoder, expectation) ==
  Dec("custom", expectation, "", <<>>, <<>>, decoder, <<>>)

withoutValidation ==
  Dec("withoutValidation", "be any value", "", <<>>, <<>>, "", <<>>)

(***************************************************************************)
(* The caller's functions: what custom wraps, what enumeration coerces     *)
(* with and what dependent selects with.  They are inputs of the library;  *)
(* these are the ones the model draws from.                                *)
(***************************************************************************)
(* The outcome of a call: a returned value, or a thrown failure. *)
Returned(val) == [st |-> "ret", val |-> val, err |-> <<>>]

Thrown(e) == [st |-> "throw", val |-> Undefined, err |-> <<e>>]

(* identity: (val) => val.  stringOrFail: returns a string, throws
   fail('not a string') for anything else.  throwsOther: throws an Error
   that is no DecodeError. *)
ApplyFn(fn, val) ==
  CASE fn = "identity" -> Returned(val)
    [] fn = "stringOrFail" ->
         IF isString(val) THEN Returned(val)
         ELSE Thrown(fail("not a string"))
    [] OTHER -> Thrown(OtherError("boom"))

(* byType: (val) => val === 'a' ? required('x', number)
                                : required('y', str).
   whatever: () => anyObject.  Both are total over null. *)
ApplySelector(fn, val) ==
  IF fn = "byType"
  THEN (IF val = StrV("a") THEN required("x", number)
        ELSE required("y", str))
  ELSE anyObject

dependent(decoder, dependentDecoder) ==
  Dec("dependent", ApplySelector(dependentDecoder, Null).expectation, "",
      <<decoder>>, <<>>, dependentDecoder, <<>>)

(***************************************************************************)
(* Invocation.  Eval(d, obj) is the outcome of d(obj) with the log of the  *)
(* invocations made on the way:                                            *)
(*   st, val, err : as for a call                                          *)
(*   calls        : the decoders and the caller's functions invoked, with  *)
(*                  their arguments, in the order they were entered        *)
(*   origin       : on a failure, the failure as first thrown, before any  *)
(*                  combinator caught and replaced it                      *)
(***************************************************************************)
Call(d, arg) == [d |-> <<d>>, fn |-> "", arg |-> arg]

FnCall(fn, arg) == [d |-> <<>>, fn |-> fn, arg |-> arg]

Ret(val, calls) ==
  [st |-> "ret", val |-> val, err |-> <<>>, calls |-> calls,
   origin |-> <<>>]

(* throw e, where e replaces (or is) the failure first thrown as origin *)
Throw(e, calls, origin) ==
  [st |-> "throw", val |-> Undefined, err |-> <<e>>, calls |-> calls,
   origin |-> origin]

(* throw new DecodeError(message): a failure that starts here *)
Raise(message) == Throw(fail(message), <<>>, <<fail(message)>>)

RECURSIVE Eval(_, _)

hardcoded_call(d, obj) == Ret(d.val[1], <<>>)

(* nullable raising its failure without the one it caught. *)
nullable_call_dropping(d, obj) ==
  IF isNull(obj) THEN Ret(Null, <<>>)
  ELSE LET r == Eval(d.sub[1], obj) IN
       IF r.st = "ret" THEN r
       ELSE Throw(DecodeError("Expected the value to " \o d.expectation
                                \o " but got " \o actualValueDescription(obj)
                                \o ". " \o PlainOrEmpty(r.err[1]),
                              <<>>),
                  r.calls, r.origin)

nullable_call(d, obj) ==
  IF isNull(obj) THEN Ret(Null, <<>>)
  ELSE LET r == Eval(d.sub[1], obj) IN
       IF r.st = "ret" THEN r
       ELSE Throw(DecodeError("Expected the value to " \o d.expectation
                                \o " but got " \o actualValueDescription(obj)
                                \o ". " \o PlainOrEmpty(r.err[1]),
                              r.err),
                  r.calls, r.origin)

optional_call(d, obj) ==
  IF ~has(obj, d.path) THEN Ret(Null, <<>>)
  ELSE LET value == Get(obj, d.path) IN
       IF isUndefined(value) THEN Ret(Null, <<>>)
       ELSE Eval(nullable(d.sub[1]), value)

(* required without its test of the path: obj[path] of null or undefined
   is a TypeError. *)
required_call_untested(d, obj) ==
  IF isNil(obj)
  THEN Throw(OtherError("Cannot read properties of " \o TemplateText(obj)),
             <<>>,
             <<OtherError("Cannot read properties of " \o TemplateText(obj))>>)
  ELSE LET r == Eval(d.sub[1], Get(obj, d.path)) IN
       IF r.st = "ret" THEN r
       ELSE Throw(DecodeError("Expected the value at [" \o d.path \o "] to "
                                \o d.sub[1].expectation \o ". "
                                \o PlainOrEmpty(r.err[1]),
                              r.err),
                  r.calls, r.origin)

required_call(d, obj) ==
  IF ~has(obj, d.path)
  THEN Raise("Expected the value at [" \o d.path \o "] to "
               \o d.sub[1].expectation \o " but there was none.")
  ELSE LET r == Eval(d.sub[1], Get(obj, d.path)) IN
       IF r.st = "ret" THEN r
       ELSE Throw(DecodeError("Expected the value at [" \o d.path \o "] to "
                                \o d.sub[1].expectation \o ". "
                                \o PlainOrEmpty(r.err[1]),
                              r.err),
                  r.calls, r.origin)

withDefault_call(d, obj) ==
  LET r == Eval(d.sub[1], obj) IN
  IF r.st = "ret" THEN Ret(defaultTo(r.val, d.val[1]), r.calls) ELSE r

(* The message of the five primitive decoders. *)
Mismatch(d, obj) ==
  Raise("Expected to " \o d.expectation \o " but got "
          \o actualValueDescription(obj) \o ".")

str_call(d, obj) == IF ~isString(obj) THEN Mismatch(d, obj) ELSE Ret(obj, <<>>)

date_call(d, obj) == IF ~isDate(obj) THEN Mismatch(d, obj) ELSE Ret(obj, <<>>)

bool_call(d, obj) ==
  IF ~isBoolean(obj) THEN Mismatch(d, obj) ELSE Ret(obj, <<>>)

number_call(d, obj) ==
  IF ~isNumber(obj) THEN Mismatch(d, obj) ELSE Ret(obj, <<>>)

anyObject_call(d, obj) ==
  IF ~isObject(obj) THEN Mismatch(d, obj) ELSE Ret(obj, <<>>)

(* _.map(obj, decoder) from element i on: the elements decoded so far are
   acc; the first failure ends the loop and is the outcome as it is. *)
RECURSIVE array_map(_, _, _, _, _)
array_map(decoder, elems, i, acc, calls) ==
  IF i > Len(elems) THEN Ret(ArrV(acc), calls)
  ELSE LET r == Eval(decoder, elems[i]) IN
       IF r.st = "ret"
       THEN array_map(decoder, elems, i + 1, Append(acc, r.val),
                      calls \o r.calls)
       ELSE Throw(r.err[1], calls \o r.calls, r.origin)

(* array adding the element's place to the failure it passes on. *)
array_call_wrapping(d, obj) ==
  IF ~isArray(obj) THEN Mismatch(d, obj)
  ELSE LET r == array_map(d.sub[1], Elems(obj), 1, <<>>, <<>>) IN
       IF r.st = "ret" THEN r
       ELSE Throw(DecodeError("Expected each element to "
                                \o d.sub[1].expectation \o ". "
                                \o PlainOrEmpty(r.err[1]),
                              r.err),
                  r.calls, r.origin)

array_call(d, obj) ==
  IF ~isArray(obj) THEN Mismatch(d, obj)
  ELSE array_map(d.sub[1], Elems(obj), 1, <<>>, <<>>)

(* The for loop of dictionary from key i of Object.keys(obj) on, with the
   entries of result so far. *)
RECURSIVE dictionary_loop(_, _, _, _, _)
dictionary_loop(d, obj, i, result, calls) ==
  IF i > Len(Keys(obj)) THEN Ret(ObjV(result), calls)
  ELSE LET prop_name == Keys(obj)[i]
           r == Eval(d.sub[1], Get(obj, prop_name))
       IN IF r.st = "ret"
          THEN dictionary_loop(d, obj, i + 1,
                               Append(result, Entry(prop_name, r.val)),
                               calls \o r.calls)
          ELSE Throw(DecodeError("Expected the value with the key ["
                                   \o prop_name \o "] to "
                                   \o d.sub[1].expectation \o ". "
                                   \o PlainOrEmpty(r.err[1]),
                                 <<>>),
                     calls \o r.calls, r.origin)

(* dictionary testing its input as anyObject does. *)
dictionary_call_any_object(d, obj) ==
  IF ~isObject(obj)
  THEN Raise("Expected the value to " \o d.expectation \o " but got "
               \o actualValueDescription(obj) \o ".")
  ELSE dictionary_loop(d, obj, 1, <<>>, <<>>)

dictionary_call(d, obj) ==
  IF ~isPlainObject(obj)
  THEN Raise("Expected the value to " \o d.expectation \o " but got "
               \o actualValueDescription(obj) \o ".")
  ELSE dictionary_loop(d, obj, 1, <<>>, <<>>)

(* object reporting the caught failure's own plain_message, whatever its
   inner_error. *)
inner_error_own(e) == PlainOrUndefined(e)

(* The text object puts after its own: the plain_message of the caught
   failure's inner_error when it has one, its own otherwise. *)
inner_error(e) ==
  IF e.inner = <<>> THEN PlainOrUndefined(e)
  ELSE PlainOrUndefined(e.inner[1])

(* The for loop of object from key i of Object.keys(props) on, with the
   entries of result so far. *)
RECURSIVE object_loop(_, _, _, _, _)
object_loop(d, obj, i, result, calls) ==
  IF i > Len(d.names) THEN Ret(ObjV(result), calls)
  ELSE LET prop_name == d.names[i]
           decoder == d.sub[i]
           r == Eval(decoder, obj)
       IN IF r.st = "ret"
          THEN object_loop(d, obj, i + 1,
                           Append(result, Entry(prop_name, r.val)),
                           calls \o r.calls)
          ELSE Throw(DecodeError("Expected the value to "
                                   \o decoder.expectation \o ". "
                                   \o inner_error(r.err[1]),
                                 <<>>),
                     calls \o r.calls, r.origin)

(* object starting its result from a copy of the input. *)
object_call_copying(d, obj) ==
  LET r == object_loop(d, obj, 1, <<>>, <<>>) IN
  IF r.st = "ret" /\ isPlainObject(obj)
  THEN [r EXCEPT !.val =
          ObjV(SelectSeq(obj.kv, LAMBDA en : en.k \notin KeySet(r.val))
                 \o r.val.kv)]
  ELSE r

object_call(d, obj) == object_loop(d, obj, 1, <<>>, <<>>)

(* _.includes(options, obj) *)
includes(options, obj) == \E i \in 1..Len(options) : options[i] = obj.s

enumeration_call(d, obj) ==
  IF ~isString(obj)
  THEN Raise(d.expectation \o " but got [" \o TemplateText(obj) \o "]")
  ELSE IF ~includes(d.names, obj)
  THEN Raise(d.expectation \o " but got [" \o TemplateText(obj) \o "]")
  ELSE LET c == ApplyFn(d.fn, obj) IN
       IF c.st = "ret" THEN Ret(c.val, <<FnCall(d.fn, obj)>>)
       ELSE Throw(c.err[1], <<FnCall(d.fn, obj)>>, c.err)

custom_call(d, obj) ==
  LET c == ApplyFn(d.fn, obj) IN
  IF c.st = "ret" THEN Ret(c.val, <<FnCall(d.fn, obj)>>)
  ELSE Throw(c.err[1], <<FnCall(d.fn, obj)>>, c.err)

(* dependent handing the second decoder the pivot instead of the input. *)
dependent_call_on_pivot(d, obj) ==
  LET p == Eval(d.sub[1], obj) IN
  IF p.st = "throw" THEN p
  ELSE LET r == Eval(ApplySelector(d.fn, p.val), p.val) IN
       [r EXCEPT !.calls = p.calls \o <<FnCall(d.fn, p.val)>> \o r.calls]

dependent_call(d, obj) ==
  LET p == Eval(d.sub[1], obj) IN
  IF p.st = "throw" THEN p
  ELSE LET r == Eval(ApplySelector(d.fn, p.val), obj) IN
       [r EXCEPT !.calls = p.calls \o <<FnCall(d.fn, p.val)>> \o r.calls]

withoutValidation_call(d, obj) == Ret(obj, <<>>)

(* d(obj): the body of the function the combinator d.k returned, logged as
   one invocation of d before the invocations it makes. *)
Body(d, obj) ==
  CASE d.k = "hardcoded" -> hardcoded_call(d, obj)
    [] d.k = "optional" -> optional_call(d, obj)
    [] d.k = "nullable" -> nullable_call(d, obj)
    [] d.k = "required" -> required_call(d, obj)
    [] d.k = "withDefault" -> withDefault_call(d, obj)
    [] d.k = "str" -> str_call(d, obj)
    [] d.k = "date" -> date_call(d, obj)
    [] d.k = "bool" -> bool_call(d, obj)
    [] d.k = "number" -> number_call(d, obj)
    [] d.k = "anyObject" -> anyObject_call(d, obj)
    [] d.k = "array" -> array_call(d, obj)
    [] d.k = "dictionary" -> dictionary_call(d, obj)
    [] d.k = "object" -> object_call(d, obj)
    [] d.k = "enumeration" -> enumeration_call(d, obj)
    [] d.k = "custom" -> custom_call(d, obj)
    [] d.k = "dependent" -> dependent_call(d, obj)
    [] OTHER -> withoutValidation_call(d, obj)

Eval(d, obj) ==
  LET r == Body(d, obj) IN [r EXCEPT !.calls = <<Call(d, obj)>> \o r.calls]

(***************************************************************************)
(* The sets the inputs are drawn from.                                     *)
(***************************************************************************)
(* The longest array, and the most entries of a plain object, of an input. *)
MaxLen == 2

(* The most combinators wrapped around a leaf decoder. *)
MaxDepth == 2

SeqsUpTo(S, n) == UNION {[1..m -> S] : m \in 0..n}

Arrays(S, n) == {ArrV(vs) : vs \in SeqsUpTo(S, n)}

(* The plain objects of at most n entries with distinct keys of K, in
   every enumeration order, and values of S. *)
Objects(K, S, n) ==
  UNION {{ObjV([i \in 1..Len(ks) |-> Entry(ks[i], vs[i])]) :
            vs \in [1..Len(ks) -> S]} :
         ks \in {q \in SeqsUpTo(K, n) :
                   \A i, j \in 1..Len(q) : i # j => q[i] # q[j]}}

Scalars ==
  {Null, Undefined, StrV("a"), StrV("tester"), StrV(""), NumV(42), NumV(0),
   NaN, BoolV(FALSE), DateV(0)}

(* One layer of each combinator of kinds around the decoders of S. *)
Wrap(kinds, paths, S) ==
  UNION {
    IF "required" \in kinds
      THEN {required(p, d) : p \in paths, d \in S} ELSE {},
    IF "optional" \in kinds
      THEN {optional(p, d) : p \in paths, d \in S} ELSE {},
    IF "nullable" \in kinds THEN {nullable(d) : d \in S} ELSE {},
    IF "withDefault" \in kinds
      THEN {withDefault(StrV("dflt"), d) : d \in S} ELSE {},
    IF "array" \in kinds THEN {array(d) : d \in S} ELSE {},
    IF "dictionary" \in kinds THEN {dictionary(d) : d \in S} ELSE {},
    IF "object" \in kinds THEN {object(<<"f">>, <<d>>) : d \in S} ELSE {},
    IF "dependent" \in kinds THEN {dependent(d, "byType") : d \in S} ELSE {}
  }

(* The decoders of at most depth combinators of kinds around a leaf. *)
RECURSIVE Compose(_, _, _, _)
Compose(kinds, paths, leaves, depth) ==
  IF depth = 0 THEN leaves
  ELSE LET S == Compose(kinds, paths, leaves, depth - 1) IN
       S \cup Wrap(kinds, paths, S)

(***************************************************************************)
(* The state: a decoder built at configuration time, the input of its last *)
(* invocation and that invocation's outcome; and, for the invocations of   *)
(* object and dictionary taken one step of their loop at a time, the       *)
(* invocations begun (frames) and the one that assigned its prop_name last *)
(* (0 before any did).                                                     *)
(***************************************************************************)
VARIABLES decoder, input, outcome, frames, last

vars == <<decoder, input, outcome, frames, last>>

(* No invocation yet. *)
NoOutcome ==
  [st |-> "none", val |-> Undefined, err |-> <<>>, calls |-> <<>>,
   origin |-> <<>>]

Built(D) ==
  /\ decoder \in D
  /\ input = Undefined
  /\ outcome = NoOutcome
  /\ frames = <<>>
  /\ last = 0

(* decoder(v), for a decoder that combinator k returned.  A behaviour holds
   one invocation: an invocation reads its decoder and its argument only,
   so a second one would start from the same state. *)
Invoke(k, v) ==
  /\ outcome = NoOutcome
  /\ decoder.k = k
  /\ input' = v
  /\ outcome' = Eval(decoder, v)
  /\ UNCHANGED <<decoder, frames, last>>

(***************************************************************************)
(* Every decoder on every value.                                           *)
(***************************************************************************)
AllKinds ==
  {"required", "optional", "nullable", "withDefault", "array", "dictionary",
   "object", "dependent"}

Leaves ==
  {str, number, bool, date, anyObject, withoutValidation,
   hardcoded(Undefined), hardcoded(NumV(1)),
   enumeration("identity", <<"a", "b">>),
   custom("identity", "be anything"),
   custom("stringOrFail", "be a string of the caller's"),
   custom("throwsOther", "never be")}

(* The leaves the combinators are wrapped around. *)
Cores ==
  {str, number, withoutValidation,
   custom("stringOrFail", "be a string of the caller's"),
   custom("throwsOther", "never be")}

Decoders ==
  Leaves \cup {withDefault(Undefined, nullable(str))}
    \cup Compose(AllKinds, {"x"}, Cores, MaxDepth)

Values ==
  Scalars \cup Arrays({NumV(42), Undefined}, MaxLen)
    \cup Objects({"x", "y"}, {StrV("a"), NumV(42), Undefined}, MaxLen)

Init == Built(Decoders)

InvokeHardcoded == \E v \in Values : Invoke("hardcoded", v)

InvokeOptional == \E v \in Values : Invoke("optional", v)

InvokeNullable == \E v \in Values : Invoke("nullable", v)

InvokeRequired == \E v \in Values : Invoke("required", v)

InvokeWithDefault == \E v \in Values : Invoke("withDefault", v)

InvokeStr == \E v \in Values : Invoke("str", v)

InvokeDate == \E v \in Values : Invoke("date", v)

InvokeBool == \E v \in Values : Invoke("bool", v)

InvokeNumber == \E v \in Values : Invoke("number", v)

InvokeAnyObject == \E v \in Values : Invoke("anyObject", v)

InvokeArray == \E v \in Values : Invoke("array", v)

InvokeDictionary == \E v \in Values : Invoke("dictionary", v)

InvokeObject == \E v \in Values : Invoke("object", v)

InvokeEnumeration == \E v \in Values : Invoke("enumeration", v)

InvokeCustom == \E v \in Values : Invoke("custom", v)

InvokeDependent == \E v \in Values : Invoke("dependent", v)

InvokeWithoutValidation == \E v \in Values : Invoke("withoutValidation", v)

Next ==
  \/ InvokeHardcoded
  \/ InvokeOptional
  \/ InvokeNullable
  \/ InvokeRequired
  \/ InvokeWithDefault
  \/ InvokeStr
  \/ InvokeDate
  \/ InvokeBool
  \/ InvokeNumber
  \/ InvokeAnyObject
  \/ InvokeArray
  \/ InvokeDictionary
  \/ InvokeObject
  \/ InvokeEnumeration
  \/ InvokeCustom
  \/ InvokeDependent
  \/ InvokeWithoutValidation

Spec == Init /\ [][Next]_vars

(***************************************************************************)
(* C1.  Every invocation returns a value of the declared type or raises    *)
(* one DecodeError.                                                        *)
(***************************************************************************)
(* The declared output type of a decoder, as a predicate on values: T of   *)
(* Decoder<T>.  A caller's function, hardcoded and withoutValidation       *)
(* declare whatever they return.                                           *)
RECURSIVE Conforms(_, _)
Conforms(d, val) ==
  CASE d.k = "str" -> isString(val)
    [] d.k = "number" -> isNumber(val)
    [] d.k = "bool" -> isBoolean(val)
    [] d.k = "date" -> isDate(val)
    [] d.k = "anyObject" -> isObject(val)
    [] d.k \in {"nullable", "optional"} ->
         isNull(val) \/ Conforms(d.sub[1], val)
    [] d.k = "required" -> Conforms(d.sub[1], val)
    [] d.k = "withDefault" -> val = d.val[1] \/ Conforms(d.sub[1], val)
    [] d.k = "array" ->
         isArray(val)
           /\ \A i \in 1..Len(val.kv) : Conforms(d.sub[1], val.kv[i].v)
    [] d.k = "dictionary" ->
         isPlainObject(val)
           /\ \A i \in 1..Len(val.kv) : Conforms(d.sub[1], val.kv[i].v)
    [] d.k = "object" ->
         isPlainObject(val) /\ Keys(val) = d.names
           /\ \A i \in 1..Len(val.kv) : Conforms(d.sub[i], val.kv[i].v)
    [] d.k = "dependent" ->
         \E p \in {Null, StrV("a")} : Conforms(ApplySelector(d.fn, p), val)
    [] OTHER -> TRUE

(* The decoders whose leaves all validate: no withoutValidation, no
   hardcoded undefined, no undefined default, and only caller's functions
   that return a defined value or raise a DecodeError. *)
RECURSIVE Validating(_)
Validating(d) ==
  CASE d.k = "withoutValidation" -> FALSE
    [] d.k = "hardcoded" -> d.val[1] # Undefined
    [] d.k = "custom" -> d.fn = "stringOrFail"
    [] d.k = "withDefault" -> d.val[1] # Undefined /\ Validating(d.sub[1])
    [] OTHER -> \A i \in 1..Len(d.sub) : Validating(d.sub[i])

Invoked == outcome.st # "none"

ReturnsTypedOrRaisesDecodeError ==
  \/ outcome.st = "ret" /\ outcome.val # Undefined
       /\ Conforms(decoder, outcome.val)
  \/ outcome.st = "throw" /\ Len(outcome.err) = 1 /\ outcome.err[1].de

(* C1 as claimed: every decoder, on every value, returns a value of its
   declared type that is not undefined, or raises one DecodeError. *)
C1_AsClaimed == Invoked => ReturnsTypedOrRaisesDecodeError

(* C1, amended: a decoder whose leaves all validate returns, on every
   value, a value of its declared type that is not undefined, or raises
   one DecodeError. *)
C1_ValidatingDecoderReturnsTypedOrRaises ==
  (Invoked /\ Validating(decoder)) => ReturnsTypedOrRaisesDecodeError

(* A validating decoder of two layers has raised a DecodeError with an
   inner failure. *)
C1_Witness ==
  /\ Invoked /\ Validating(decoder)
  /\ decoder.k = "required" /\ decoder.sub[1].k = "array"
  /\ outcome.st = "throw" /\ outcome.err[1].inner # <<>>

(***************************************************************************)
(* object(props) on every value: the decoders of the repository's tests    *)
(* and their neighbours.                                                   *)
(***************************************************************************)
(* The most combinators between a field's required or optional and its
   primitive, counting the required or optional. *)
MaxChain == 2

FieldInners == Compose({"nullable", "array"}, {}, {str, number}, MaxChain - 1)

FieldDecoders ==
  {required(p, d) : p \in {"name", "id"}, d \in FieldInners}
    \cup {optional(p, d) : p \in {"name", "id"}, d \in FieldInners}
    \cup {hardcoded(NumV(1)), custom("throwsOther", "never be")}

SecondFields == {required("id", number), optional("id", str)}

ObjectDecoders ==
  {object(<<>>, <<>>)}
    \cup {object(<<"name">>, <<f>>) : f \in FieldDecoders}
    \cup {object(<<"name", "id">>, <<f, g>>) :
            f \in FieldDecoders, g \in SecondFields}
    \cup {object(<<"id", "name">>, <<g, f>>) :
            f \in FieldDecoders, g \in SecondFields}

ObjectInputs ==
  {Null, Undefined, StrV("tester"), NumV(42)}
    \cup Arrays({NumV(42)}, MaxLen)
    \cup Objects({"name", "id", "extra"}, {StrV("tester"), NumV(42), Null},
                 MaxLen)

InitObject == Built(ObjectDecoders)

NextObject == \E v \in ObjectInputs : Invoke("object", v)

SpecObject == InitObject /\ [][NextObject]_vars

(* The first field of object decoder d to fail on v; 0 when none does. *)
FirstFailing(d, v) ==
  IF \A i \in 1..Len(d.sub) : Eval(d.sub[i], v).st = "ret" THEN 0
  ELSE CHOOSE i \in 1..Len(d.sub) :
         /\ Eval(d.sub[i], v).st = "throw"
         /\ \A j \in 1..(i - 1) : Eval(d.sub[j], v).st = "ret"

(* The logs of the fields 1..n of d on v, one after the other. *)
RECURSIVE FieldCalls(_, _, _)
FieldCalls(d, v, n) ==
  IF n = 0 THEN <<>>
  ELSE FieldCalls(d, v, n - 1) \o Eval(d.sub[n], v).calls

(* The last failure of the inner_error chain of e. *)
RECURSIVE Innermost(_)
Innermost(e) == IF e.inner = <<>> THEN e ELSE Innermost(e.inner[1])

IsPrimitive(d) == d.k \in {"str", "number", "bool", "date", "anyObject"}

(* What object raises when field i fails with failure e, with P as its
   second sentence; the fields up to i and no others were invoked, in
   the order of declaration. *)
ObjectRaises(i, P) ==
  /\ outcome.st = "throw"
  /\ outcome.err[1].de
  /\ outcome.err[1].plain
       = "Expected the value to " \o decoder.sub[i].expectation \o ". " \o P
  /\ outcome.err[1].message = "Decode Failure: " \o outcome.err[1].plain
  /\ outcome.calls = <<Call(decoder, input)>> \o FieldCalls(decoder, input, i)

(* The two cases of a field required(k, d) that C2 spells out. *)
RequiredFieldCases(f, P, absent) ==
  f.k = "required" =>
    /\ absent =>
         P = "Expected the value at [" \o f.path \o "] to "
               \o f.sub[1].expectation \o " but there was none."
    /\ (~absent /\ IsPrimitive(f.sub[1])) =>
         P = "Expected to " \o f.sub[1].expectation \o " but got "
               \o actualValueDescription(Get(input, f.path)) \o "."

(* C2 as claimed: when field i is the first to fail, with failure e,
   object raises "Expected the value to <expectation of field i>. <P>"
   where P is the plain_message of the innermost failure of e's chain, or
   e's own when e has no inner error. *)
C2_AsClaimed ==
  (Invoked /\ decoder.k = "object" /\ FirstFailing(decoder, input) # 0) =>
    LET i == FirstFailing(decoder, input)
        e == Eval(decoder.sub[i], input).err[1]
        P == IF e.inner = <<>> THEN PlainOrUndefined(e)
             ELSE PlainOrUndefined(Innermost(e))
    IN /\ ObjectRaises(i, P)
       /\ RequiredFieldCases(decoder.sub[i], P,
                             decoder.sub[i].path \notin OwnKeys(input))

(* C2, amended: when field i is the first to fail, with failure e, object
   raises "Expected the value to <expectation of field i>. <P>" where P is
   the plain_message of e's inner_error, one link down, or e's own when e
   has no inner error. *)
C2_ObjectReportsImmediateInner ==
  (Invoked /\ decoder.k = "object" /\ FirstFailing(decoder, input) # 0) =>
    LET i == FirstFailing(decoder, input)
        e == Eval(decoder.sub[i], input).err[1]
        P == IF e.inner = <<>> THEN PlainOrUndefined(e)
             ELSE PlainOrUndefined(e.inner[1])
    IN /\ ObjectRaises(i, P)
       /\ RequiredFieldCases(decoder.sub[i], P,
                             ~has(input, decoder.sub[i].path))

(* The second field failed on a chain of two links: required, nullable,
   primitive. *)
C2_Witness ==
  /\ Invoked /\ decoder.k = "object" /\ Len(decoder.sub) = 2
  /\ FirstFailing(decoder, input) = 2
  /\ decoder.sub[2].k = "required" /\ decoder.sub[2].sub[1].k = "nullable"
  /\ Eval(decoder.sub[2], input).err[1].inner # <<>>
  /\ Eval(decoder.sub[2], input).err[1].inner[1].inner # <<>>

(***************************************************************************)
(* C3.  What object returns when every field succeeds.                     *)
(***************************************************************************)
(* chai's deep equality: plain objects by their entries whatever the
   order of the keys, arrays element by element. *)
RECURSIVE DeepEqual(_, _)
DeepEqual(a, b) ==
  IF a.t # b.t THEN FALSE
  ELSE IF a.t = "array"
    THEN /\ Len(a.kv) = Len(b.kv)
         /\ \A i \in 1..Len(a.kv) : DeepEqual(a.kv[i].v, b.kv[i].v)
  ELSE IF a.t = "object"
    THEN /\ KeySet(a) = KeySet(b)
         /\ Len(a.kv) = Len(b.kv)
         /\ \A k \in KeySet(a) : DeepEqual(Get(a, k), Get(b, k))
  ELSE a = b

(* Every field is k: required(k, primitive). *)
PlainRequiredFields(d) ==
  \A i \in 1..Len(d.sub) :
    /\ d.sub[i].k = "required"
    /\ d.sub[i].path = d.names[i]
    /\ IsPrimitive(d.sub[i].sub[1])

NameSet(d) == {d.names[i] : i \in 1..Len(d.names)}

(* C3: when every field decoder succeeds on the input, object returns a
   structure whose keys are exactly the declared field names, each holding
   what its field decoder returns for the whole input; with fields
   k: required(k, primitive) and an input of exactly those keys the result
   is deep-equal to the input. *)
C3_ObjectReturnsDeclaredFields ==
  (Invoked /\ decoder.k = "object" /\ FirstFailing(decoder, input) = 0) =>
    /\ outcome.st = "ret"
    /\ outcome.val
         = ObjV([i \in 1..Len(decoder.names) |->
                   Entry(decoder.names[i], Eval(decoder.sub[i], input).val)])
    /\ KeySet(outcome.val) = NameSet(decoder)
    /\ (PlainRequiredFields(decoder) /\ isPlainObject(input)
          /\ KeySet(input) = NameSet(decoder))
         => DeepEqual(outcome.val, input)

(* The decoder of the tests returned, for an input that lists id before
   name, a structure deep-equal to it. *)
C3_Witness ==
  /\ Invoked /\ outcome.st = "ret"
  /\ decoder = object(<<"name", "id">>,
                      <<required("name", str), required("id", number)>>)
  /\ Keys(input) = <<"id", "name">>
  /\ outcome.val # input

(* Two fields succeeded on an input that holds a key no field declares. *)
C3_UndeclaredKeyDropped ==
  /\ Invoked /\ outcome.st = "ret" /\ decoder.k = "object"
  /\ Len(decoder.sub) = 2
  /\ "extra" \in KeySet(input) /\ "extra" \notin KeySet(outcome.val)

(***************************************************************************)
(* C4.  array(decoder) on every value.                                     *)
(***************************************************************************)
ElementDecoders ==
  {number, str, withoutValidation, nullable(number), required("x", number),
   array(number), custom("throwsOther", "never be")}

ArrayInputs ==
  {Null, Undefined, StrV("a"), NumV(42), ObjV(<<Entry("x", NumV(1))>>)}
    \cup Arrays({NumV(42), NumV(1), StrV("a"), Null,
                 ObjV(<<Entry("x", NumV(1))>>)}, MaxLen)

InitArray == Built({array(d) : d \in ElementDecoders})

NextArray == \E v \in ArrayInputs : Invoke("array", v)

SpecArray == InitArray /\ [][NextArray]_vars

(* The logs of d on the elements 1..n of xs, one after the other. *)
RECURSIVE ElementCalls(_, _, _)
ElementCalls(d, xs, n) ==
  IF n = 0 THEN <<>>
  ELSE ElementCalls(d, xs, n - 1) \o Eval(d, xs[n]).calls

(* C4: on an array xs, array(d) invokes d on the elements in index order;
   when d succeeds on all, the result is an array of the same length whose
   i-th element is d(xs[i]), deep-equal to xs for d = number; when d fails
   on some, array(d) raises the very failure d raised for the first
   failing element, and goes no further. *)
C4_ArrayMapsInOrder ==
  (Invoked /\ decoder.k = "array" /\ isArray(input)) =>
    LET d == decoder.sub[1]
        xs == Elems(input)
        bad == {i \in 1..Len(xs) : Eval(d, xs[i]).st = "throw"}
    IN IF bad = {}
       THEN /\ outcome.st = "ret"
            /\ isArray(outcome.val)
            /\ Len(outcome.val.kv) = Len(xs)
            /\ \A i \in 1..Len(xs) :
                 Elems(outcome.val)[i] = Eval(d, xs[i]).val
            /\ d = number => DeepEqual(outcome.val, input)
            /\ outcome.calls
                 = <<Call(decoder, input)>> \o ElementCalls(d, xs, Len(xs))
       ELSE LET j == CHOOSE i \in bad : \A k \in bad : i <= k IN
            /\ outcome.st = "throw"
            /\ outcome.err = Eval(d, xs[j]).err
            /\ outcome.calls = <<Call(decoder, input)>> \o ElementCalls(d, xs, j)

(* Two elements fail, each with its own message, and the first one's is
   raised. *)
C4_Witness ==
  /\ Invoked /\ decoder = array(number) /\ isArray(input)
  /\ Len(input.kv) >= 2
  /\ Eval(number, input.kv[1].v).st = "throw"
  /\ Eval(number, input.kv[2].v).st = "throw"
  /\ Eval(number, input.kv[1].v).err # Eval(number, input.kv[2].v).err
  /\ outcome.st = "throw"

(***************************************************************************)
(* C5.  required and optional: a missing key, and a key that holds null or *)
(* undefined.                                                              *)
(***************************************************************************)
PathDecoders ==
  {required(p, d) : p \in {"x", DeepPath},
                    d \in {str, number, withoutValidation, nullable(str)}}
    \cup {optional(p, d) : p \in {"x", DeepPath},
                           d \in {str, number, withoutValidation,
                                  nullable(str)}}

PathInputs ==
  {Null, Undefined, StrV("s"), NumV(42)}
    \cup Arrays({StrV("s")}, MaxLen)
    \cup Objects({"x", "a", DeepPath},
                 {StrV("s"), NumV(42), Null, Undefined,
                  ObjV(<<Entry("b", StrV("s"))>>)},
                 MaxLen)

InitPath == Built(PathDecoders)

NextPath ==
  \/ \E v \in PathInputs : Invoke("required", v)
  \/ \E v \in PathInputs : Invoke("optional", v)

SpecPath == InitPath /\ [][NextPath]_vars

(* Key k is no property of obj. *)
Absent(obj, k) == k \notin OwnKeys(obj)

(* Decoder d was invoked, on whatever value. *)
WasInvoked(d) == \E i \in 1..Len(outcome.calls) : outcome.calls[i].d = <<d>>

ThereWasNone(d) ==
  /\ outcome.st = "throw"
  /\ outcome.err[1]
       = fail("Expected the value at [" \o d.path \o "] to "
                \o d.sub[1].expectation \o " but there was none.")

(* C5, of required(k, d): it raises "... but there was none." without
   invoking d exactly when k is absent from obj, and otherwise invokes d
   on obj[k], null and undefined included. *)
RequiredAsClaimed(absent) ==
  LET d == decoder.sub[1] IN
  /\ (ThereWasNone(decoder) /\ ~WasInvoked(d)) <=> absent
  /\ ~absent =>
       /\ Len(outcome.calls) >= 2
       /\ outcome.calls[2] = Call(d, Get(input, decoder.path))
       /\ outcome.st = Eval(d, Get(input, decoder.path)).st
       /\ outcome.st = "ret" => outcome.val = Eval(d, Get(input, decoder.path)).val

(* C5, of optional(k, d): it returns null without invoking d and without
   raising when k is absent or obj[k] is undefined or null, and otherwise
   returns what d(obj[k]) returns, or raises. *)
OptionalAsClaimed(absent) ==
  LET d == decoder.sub[1]
      value == Get(input, decoder.path)
  IN IF absent \/ isNil(value)
     THEN outcome.st = "ret" /\ outcome.val = Null /\ ~WasInvoked(d)
     ELSE /\ outcome.calls[Len(outcome.calls) - Len(Eval(d, value).calls) + 1]
               = Call(d, value)
          /\ outcome.st = Eval(d, value).st
          /\ outcome.st = "ret" => outcome.val = Eval(d, value).val

(* C5 as claimed, absent meaning that obj has no property k. *)
C5_AsClaimed ==
  Invoked =>
    /\ decoder.k = "required" => RequiredAsClaimed(Absent(input, decoder.path))
    /\ decoder.k = "optional" => OptionalAsClaimed(Absent(input, decoder.path))

(* What the code does: absent is what _.has(obj, k) says, which follows a
   dotted k into the objects below. *)
C5_ByHas ==
  Invoked =>
    /\ decoder.k = "required" => RequiredAsClaimed(~has(input, decoder.path))
    /\ decoder.k = "optional" => OptionalAsClaimed(~has(input, decoder.path))

(* C5 holds of every key that _.has reads as one key. *)
C5_PlainKeys == (Invoked /\ ~isDeepProp(decoder.path)) => C5_AsClaimed

(***************************************************************************)
(* C6.  withDefault(default_value, decoder) on every value.                *)
(***************************************************************************)
DefaultDecoders ==
  {withDefault(def, d) :
     def \in {NumV(7), StrV("dflt")},
     d \in {number, str, bool, withoutValidation, nullable(number),
            optional("x", number), required("x", withoutValidation),
            custom("throwsOther", "never be")}}

DefaultInputs ==
  Scalars \cup Arrays({NaN}, MaxLen)
    \cup Objects({"x"}, {NumV(0), NaN, Null, Undefined, StrV("")}, MaxLen)

InitDefault == Built(DefaultDecoders)

NextDefault == \E v \in DefaultInputs : Invoke("withDefault", v)

SpecDefault == InitDefault /\ [][NextDefault]_vars

(* C6 as claimed: a failure of d(v) is raised as it is; a null or undefined
   result of d(v) is replaced by default_value; every other result, 0,
   false, the empty string and NaN among them, is returned unchanged. *)
C6_AsClaimed ==
  (Invoked /\ decoder.k = "withDefault") =>
    LET r == Eval(decoder.sub[1], input) IN
    IF r.st = "throw"
    THEN outcome.st = "throw" /\ outcome.err = r.err
    ELSE /\ outcome.st = "ret"
         /\ outcome.val = (IF isNil(r.val) THEN decoder.val[1] ELSE r.val)

(* What the code does: as claimed for every result of d(v) but NaN. *)
C6_ButForNaN ==
  (Invoked /\ decoder.k = "withDefault"
     /\ Eval(decoder.sub[1], input).val # NaN) =>
    LET r == Eval(decoder.sub[1], input) IN
    IF r.st = "throw"
    THEN outcome.st = "throw" /\ outcome.err = r.err
    ELSE /\ outcome.st = "ret"
         /\ outcome.val = (IF isNil(r.val) THEN decoder.val[1] ELSE r.val)

(***************************************************************************)
(* C7.  dependent(decoder, dependentDecoder) on every value.               *)
(***************************************************************************)
DependentDecoders ==
  {dependent(d, f) :
     d \in {required("type", str), optional("type", str), str,
            withoutValidation, required("x", number)},
     f \in {"byType", "whatever"}}

DependentInputs ==
  {Null, StrV("a"), NumV(42)}
    \cup Arrays({StrV("a")}, MaxLen)
    \cup Objects({"type", "x", "y"}, {StrV("a"), StrV("b"), NumV(42)},
                 MaxLen)

InitDependent == Built(DependentDecoders)

NextDependent == \E v \in DependentInputs : Invoke("dependent", v)

SpecDependent == InitDependent /\ [][NextDependent]_vars

(* C7: dependent(d, f)(v) invokes d on v for a pivot p, then f(p) for a
   second decoder, then that decoder on v itself, and returns its outcome;
   when d(v) raises, that failure is the outcome and f is not invoked. *)
C7_DependentDecodesOriginalInput ==
  (Invoked /\ decoder.k = "dependent") =>
    LET p == Eval(decoder.sub[1], input) IN
    IF p.st = "throw"
    THEN /\ outcome.st = "throw"
         /\ outcome.err = p.err
         /\ outcome.calls = <<Call(decoder, input)>> \o p.calls
         /\ \A i \in 1..Len(outcome.calls) : outcome.calls[i].fn = ""
    ELSE LET second == ApplySelector(decoder.fn, p.val)
             r == Eval(second, input)
         IN /\ outcome.st = r.st
            /\ outcome.val = r.val
            /\ outcome.err = r.err
            /\ outcome.calls
                 = <<Call(decoder, input)>> \o p.calls
                     \o <<FnCall(decoder.fn, p.val)>> \o r.calls

(* The pivot 'a' of the field type selected required('x', number), which
   found x in the input, not in the pivot. *)
C7_Witness ==
  /\ Invoked /\ decoder = dependent(required("type", str), "byType")
  /\ Get(input, "type") = StrV("a")
  /\ outcome.st = "ret" /\ outcome.val = NumV(42)

(***************************************************************************)
(* C8.  Arrays where an object is expected.                                *)
(***************************************************************************)
ShapeFields ==
  {optional("x", str), optional("length", str), hardcoded(NumV(1)),
   required("x", str), required("length", number)}

ShapeDecoders ==
  {anyObject, object(<<>>, <<>>)}
    \cup {dictionary(d) : d \in {str, number, withoutValidation}}
    \cup {object(<<"f">>, <<f>>) : f \in ShapeFields}
    \cup {object(<<"f", "g">>, <<f, g>>) : f \in ShapeFields, g \in ShapeFields}

ShapeInputs ==
  {Null, StrV("a"), DateV(0)}
    \cup Arrays({StrV("a"), NumV(42)}, MaxLen)
    \cup Objects({"x"}, {StrV("a"), NumV(42)}, MaxLen)

InitShape == Built(ShapeDecoders)

NextShape ==
  \/ \E v \in ShapeInputs : Invoke("anyObject", v)
  \/ \E v \in ShapeInputs : Invoke("dictionary", v)
  \/ \E v \in ShapeInputs : Invoke("object", v)

SpecShape == InitShape /\ [][NextShape]_vars

RaisedDecodeError == outcome.st = "throw" /\ outcome.err[1].de

(* C8 as claimed: on an array, anyObject, dictionary(d) and object(fields)
   each raise a DecodeError. *)
C8_AsClaimed ==
  (Invoked /\ isArray(input)
     /\ decoder.k \in {"anyObject", "dictionary", "object"}) =>
    RaisedDecodeError

(* C8, amended: on an array, dictionary(d) raises a DecodeError; anyObject
   returns the array; object(fields) raises a DecodeError exactly when one
   of its field decoders raises on the array, so that it returns a
   structure when every field is hardcoded or an optional whose key the
   array does not hold. *)
C8_OnlyDictionaryRejectsArrays ==
  (Invoked /\ isArray(input)) =>
    /\ decoder.k = "dictionary" =>
         /\ RaisedDecodeError
         /\ outcome.err[1]
              = fail("Expected the value to " \o decoder.expectation
                       \o " but got object.")
    /\ decoder.k = "anyObject" => outcome.st = "ret" /\ outcome.val = input
    /\ decoder.k = "object" =>
         /\ outcome.st = "throw" =>
              /\ RaisedDecodeError
              /\ FirstFailing(decoder, input) # 0
         /\ FirstFailing(decoder, input) # 0 => outcome.st = "throw"
         /\ (\A i \in 1..Len(decoder.sub) :
               \/ decoder.sub[i].k = "hardcoded"
               \/ /\ decoder.sub[i].k = "optional"
                  /\ Absent(input, decoder.sub[i].path))
              => outcome.st = "ret" /\ isPlainObject(outcome.val)

(* object with two optional fields returned a structure for an array that
   is not empty. *)
C8_Witness ==
  /\ Invoked /\ isArray(input) /\ Len(input.kv) > 0
  /\ decoder.k = "object" /\ Len(decoder.sub) = 2
  /\ \A i \in 1..2 : decoder.sub[i].k = "optional"
  /\ outcome.st = "ret"

(* dictionary raised for an array that is not empty. *)
C8_DictionaryRejected ==
  /\ Invoked /\ isArray(input) /\ Len(input.kv) > 0
  /\ decoder.k = "dictionary" /\ outcome.st = "throw"

(***************************************************************************)
(* C9.  The inner_error chain of the failure a composition raises.         *)
(***************************************************************************)
ChainKinds ==
  {"required", "optional", "nullable", "array", "dictionary", "object"}

ChainDecoders == Compose(ChainKinds, {"x"}, {str, number}, MaxDepth)

(* The values of at most depth objects and arrays around a scalar. *)
RECURSIVE Nested(_)
Nested(depth) ==
  IF depth = 0 THEN {StrV("s"), NumV(1), Null}
  ELSE LET S == Nested(depth - 1) IN
       S \cup {ObjV(<<Entry("x", v)>>) : v \in S} \cup {ArrV(<<v>>) : v \in S}

ChainInputs == Nested(MaxDepth)

InitChain == Built(ChainDecoders)

NextChain ==
  \/ \E v \in ChainInputs : Invoke("str", v)
  \/ \E v \in ChainInputs : Invoke("number", v)
  \/ \E v \in ChainInputs : Invoke("required", v)
  \/ \E v \in ChainInputs : Invoke("optional", v)
  \/ \E v \in ChainInputs : Invoke("nullable", v)
  \/ \E v \in ChainInputs : Invoke("array", v)
  \/ \E v \in ChainInputs : Invoke("dictionary", v)
  \/ \E v \in ChainInputs : Invoke("object", v)

SpecChain == InitChain /\ [][NextChain]_vars

(* The decoders of a composition from the outermost in: layer 1 is d. *)
RECURSIVE Layers(_)
Layers(d) == IF Len(d.sub) = 0 THEN <<d>> ELSE <<d>> \o Layers(d.sub[1])

(* The number of failures on the inner_error chain of e. *)
RECURSIVE ChainLength(_)
ChainLength(e) == IF e.inner = <<>> THEN 1 ELSE 1 + ChainLength(e.inner[1])

(* The layer that raised the failure first: the decoder invoked last. *)
RaisingLayer ==
  CHOOSE i \in 1..Len(Layers(decoder)) :
    Layers(decoder)[i] = outcome.calls[Len(outcome.calls)].d[1]

(* The layers above layer n that catch a failure and raise their own with
   the caught one as inner_error. *)
Retaining(n) ==
  Cardinality({i \in 1..(n - 1) :
                 Layers(decoder)[i].k \in {"required", "optional", "nullable"}})

(* The layers above the raising one that raise their own failure with no
   inner_error. *)
Cutting ==
  {i \in 1..(RaisingLayer - 1) :
     Layers(decoder)[i].k \in {"dictionary", "object"}}

(* C9 as claimed: the chain of the failure a composition raises ends at
   the failure its leaf raised. *)
C9_AsClaimed ==
  (Invoked /\ outcome.st = "throw") =>
    Innermost(outcome.err[1]) = outcome.origin[1]

(* C9, amended: required, nullable and optional keep the failure they
   caught as inner_error and array passes it on as it is, so that the
   chain ends at the failure first raised when it passed no dictionary and
   no object; a dictionary or an object raises a failure with no
   inner_error, and the chain ends at the outermost of them. *)
C9_ChainEndsAtOutermostCut ==
  (Invoked /\ outcome.st = "throw") =>
    IF Cutting = {}
    THEN /\ Innermost(outcome.err[1]) = outcome.origin[1]
         /\ ChainLength(outcome.err[1]) = Retaining(RaisingLayer) + 1
    ELSE LET c == CHOOSE i \in Cutting : \A j \in Cutting : i <= j IN
         /\ Innermost(outcome.err[1]) # outcome.origin[1]
         /\ ChainLength(outcome.err[1]) = Retaining(c) + 1

(* A failure of the leaf came up through nullable and required, and the
   chain of three ends at it. *)
C9_Witness ==
  /\ Invoked /\ outcome.st = "throw"
  /\ decoder.k = "required" /\ decoder.sub[1].k = "nullable"
  /\ RaisingLayer = 3
  /\ ChainLength(outcome.err[1]) = 3
  /\ Innermost(outcome.err[1]) = outcome.origin[1]

(* A failure of the leaf came up through dictionary and required, and the
   chain of two ends at the dictionary's failure. *)
C9_CutWitness ==
  /\ Invoked /\ outcome.st = "throw"
  /\ decoder.k = "required" /\ decoder.sub[1].k = "dictionary"
  /\ RaisingLayer = 3
  /\ ChainLength(outcome.err[1]) = 2

(***************************************************************************)
(* C10.  Invocations of object and dictionary in progress together.  Each  *)
(* invocation is a frame holding what its closure declares (prop_name,     *)
(* result) and where it stands:                                            *)
(*   pc "loop" : at the head of the for loop, key i of the keys next       *)
(*   pc "body" : prop_name assigned, the field's decoder not yet invoked   *)
(*   pc "done" : returned (st "ret", val) or raised (st "throw", err)      *)
(* A field's decoder runs in one step.  The frames take their steps in any *)
(* order, which covers a decoder invoked from within a caller's function   *)
(* of another invocation.  crossed records that another invocation         *)
(* assigned its prop_name between this one's assignment and its use.       *)
(***************************************************************************)
(* The most invocations in progress or finished. *)
MaxFrames == 2

Frame(d, obj, pc, st, val, err) ==
  [d |-> d, obj |-> obj, pc |-> pc, i |-> 1, prop_name |-> "",
   result |-> <<>>, st |-> st, val |-> val, err |-> err, crossed |-> FALSE]

FrameDecoders ==
  {object(<<"name", "id">>,
          <<required("name", str), required("id", number)>>),
   dictionary(number)}

FrameInputs ==
  {ObjV(<<Entry("name", StrV("tester")), Entry("id", NumV(42))>>),
   ObjV(<<Entry("id", NumV(42))>>),
   ObjV(<<Entry("id", NumV(42)), Entry("name", NumV(7))>>),
   NumV(42)}

(* The keys the loop of frame f runs over. *)
LoopKeys(f) == IF f.d.k = "object" THEN f.d.names ELSE Keys(f.obj)

(* let prop_name: the variable of invocation n. *)
prop_name_shared(n) == frames[last].prop_name

prop_name(n) == frames[n].prop_name

(* d(v) up to the head of the loop; dictionary raises here for what is no
   plain object. *)
Begin(d, v) ==
  /\ Len(frames) < MaxFrames
  /\ frames' =
       Append(frames,
              IF d.k = "dictionary" /\ ~isPlainObject(v)
              THEN Frame(d, v, "done", "throw", Undefined,
                         <<fail("Expected the value to " \o d.expectation
                                  \o " but got " \o actualValueDescription(v)
                                  \o ".")>>)
              ELSE Frame(d, v, "loop", "none", Undefined, <<>>))
  /\ UNCHANGED <<decoder, input, outcome, last>>

(* for (prop_name of Object.keys(...)): the next key *)
NextKey(n) ==
  /\ frames[n].pc = "loop"
  /\ frames[n].i <= Len(LoopKeys(frames[n]))
  /\ frames' = [frames EXCEPT ![n].prop_name = LoopKeys(frames[n])[frames[n].i],
                              ![n].pc = "body"]
  /\ last' = n
  /\ UNCHANGED <<decoder, input, outcome>>

(* return result *)
Return(n) ==
  /\ frames[n].pc = "loop"
  /\ frames[n].i > Len(LoopKeys(frames[n]))
  /\ frames' = [frames EXCEPT ![n].pc = "done", ![n].st = "ret",
                              ![n].val = ObjV(frames[n].result)]
  /\ UNCHANGED <<decoder, input, outcome, last>>

(* The outcome of the field's decoder in frame n: props[prop_name](obj) of
   object, decoder(obj[prop_name]) of dictionary.  A prop_name that props
   does not hold makes the call a TypeError. *)
FieldOutcome(n) ==
  LET f == frames[n] IN
  IF f.d.k = "dictionary" THEN Eval(f.d.sub[1], Get(f.obj, prop_name(n)))
  ELSE IF prop_name(n) \notin NameSet(f.d)
    THEN Throw(OtherError("decoder is not a function"), <<>>, <<>>)
  ELSE Eval(f.d.sub[CHOOSE i \in 1..Len(f.d.names) :
                      f.d.names[i] = prop_name(n)],
            f.obj)

(* result[prop_name] = ... *)
FieldDecoded(n) ==
  /\ frames[n].pc = "body"
  /\ FieldOutcome(n).st = "ret"
  /\ frames' = [frames EXCEPT
                  ![n].result = Append(frames[n].result,
                                       Entry(prop_name(n), FieldOutcome(n).val)),
                  ![n].i = frames[n].i + 1,
                  ![n].pc = "loop",
                  ![n].crossed = frames[n].crossed \/ last # n]
  /\ UNCHANGED <<decoder, input, outcome, last>>

(* The failure the catch block of frame n raises for the caught e. *)
Caught(n, e) ==
  LET f == frames[n] IN
  IF f.d.k = "dictionary"
  THEN DecodeError("Expected the value with the key [" \o prop_name(n)
                     \o "] to " \o f.d.sub[1].expectation \o ". "
                     \o PlainOrEmpty(e),
                   <<>>)
  ELSE IF prop_name(n) \notin NameSet(f.d)
    THEN OtherError("Cannot read properties of undefined")
  ELSE DecodeError("Expected the value to "
                     \o f.d.sub[CHOOSE i \in 1..Len(f.d.names) :
                                  f.d.names[i] = prop_name(n)].expectation
                     \o ". " \o inner_error(e),
                   <<>>)

(* catch (e) { throw new DecodeError(...) } *)
FieldFailed(n) ==
  /\ frames[n].pc = "body"
  /\ FieldOutcome(n).st = "throw"
  /\ frames' = [frames EXCEPT
                  ![n].pc = "done", ![n].st = "throw",
                  ![n].err = <<Caught(n, FieldOutcome(n).err[1])>>,
                  ![n].crossed = frames[n].crossed \/ last # n]
  /\ UNCHANGED <<decoder, input, outcome, last>>

InitFrames == Built({withoutValidation})

NextFrames ==
  \/ \E d \in FrameDecoders, v \in FrameInputs : Begin(d, v)
  \/ \E n \in 1..Len(frames) : NextKey(n)
  \/ \E n \in 1..Len(frames) : Return(n)
  \/ \E n \in 1..Len(frames) : FieldDecoded(n)
  \/ \E n \in 1..Len(frames) : FieldFailed(n)

SpecFrames == InitFrames /\ [][NextFrames]_vars

(* C10: whatever invocations ran before it or are in progress with it, a
   finished invocation d(v) has the outcome of d(v) alone, the same value
   or a failure of the same message; so two invocations of d on v end
   alike. *)
C10_OutcomeIndependentOfOtherInvocations ==
  \A n \in 1..Len(frames) :
    frames[n].pc = "done" =>
      /\ frames[n].st = Eval(frames[n].d, frames[n].obj).st
      /\ frames[n].val = Eval(frames[n].d, frames[n].obj).val
      /\ frames[n].err = Eval(frames[n].d, frames[n].obj).err
      /\ \A m \in 1..Len(frames) :
           (frames[m].pc = "done" /\ frames[m].d = frames[n].d
              /\ frames[m].obj = frames[n].obj) =>
             /\ frames[m].st = frames[n].st
             /\ frames[m].val = frames[n].val
             /\ frames[m].err = frames[n].err

(* An invocation raised for its own key although another invocation had
   assigned a different prop_name in between. *)
C10_Witness ==
  \E n \in 1..Len(frames) :
    /\ frames[n].pc = "done" /\ frames[n].st = "throw"
    /\ frames[n].crossed
    /\ last # 0 /\ last # n
    /\ frames[last].prop_name # frames[n].prop_name

====
